---- MODULE Spec2Model ----
(***************************************************************************)
(* OTP authentication service (lilokie990/otp).                            *)
(*                                                                         *)
(* The model follows one HTTP request per worker through the Redis and     *)
(* Postgres operations it performs.  Every Redis/Postgres command is one   *)
(* atomic step; the Go code between two commands is folded into the step   *)
(* of the command that follows it.  Time is a discrete clock; a key set    *)
(* with TTL d at time t is absent from time t+d on.                        *)
(***************************************************************************)
EXTENDS Integers, Sequences, FiniteSets, TLC

(***************************************************************************)
(* Bounds of the model.                                                    *)
(***************************************************************************)
MaxLimit == 2        \* otp.rateLimit.count ranges over 1..MaxLimit
MaxTime == 4         \* the clock stops at MaxTime in a sequential run
ConcTime == 1        \* the clock stops at ConcTime in a timed concurrent run
MaxDraw == 1         \* r.Int63n returns 0 or MaxDraw
NProcs == 3          \* workers that exist (the burst scenario uses all)
ConcBudget == 4      \* requests begun in a concurrent run
TimedBudget == 2     \* requests begun in a timed concurrent run
AuthTime == 3        \* the clock stops at AuthTime in a session run
AuthBudget == 4      \* requests begun in a session run
SeqBudget == 4       \* requests begun in a sequential run
BurstBudget == 3     \* requests begun in the burst scenario
MaxLength == 7       \* otp.length ranges over 1..MaxLength in a length run
LenBudget == 3       \* requests begun in a length run
FormatBudget == 2    \* requests begun in a phone format run
GuessBudget == 4     \* requests begun in a guessing run
GateTime == 3        \* the clock stops at GateTime in a protected route run
GateBudget == 3      \* requests begun in a protected route run
FailBudget == 2      \* requests begun in a run with store failures
VerifyFailBudget == 4  \* requests begun in a run with failing verifications
WindowTime == 4      \* the clock stops at WindowTime in an interval run
WindowBudget == 5    \* requests begun in an interval run
IsolationBudget == 3 \* requests begun in a run with two phone numbers

(***************************************************************************)
(* Configuration (config.yaml), in clock ticks.                            *)
(***************************************************************************)
Window == 2          \* otp.rateLimit.time, GetRateLimitDuration()
OTPExpiration == 1   \* otp.expiration, GetOTPExpiration()
OTPLength == 6       \* otp.length
JWTExpiration == 2   \* jwt.expirationHours
JWTSecret == "your-secret-key"   \* jwt.secret

Limits == 1..MaxLimit

Procs == 1..NProcs
SeqProcs == {1}
ConcProcs == {1, 2}

Min(a, b) == IF a <= b THEN a ELSE b

(***************************************************************************)
(* Strings are sequences of one-character strings, so that prefixes,       *)
(* lengths and concatenation are computed as the code computes them.       *)
(***************************************************************************)
DigitChars == <<"0", "1", "2", "3", "4", "5", "6", "7", "8", "9">>

HasPrefix(s, pre) ==
    /\ Len(s) >= Len(pre)
    /\ SubSeq(s, 1, Len(pre)) = pre

\* strconv.FormatInt(n, 10) for n >= 0
RECURSIVE FormatInt(_)
FormatInt(n) ==
    IF n < 10 THEN <<DigitChars[n + 1]>>
    ELSE FormatInt(n \div 10) \o <<DigitChars[(n % 10) + 1]>>

RECURSIVE powInt(_, _)
powInt(x, y) == IF y <= 0 THEN 1 ELSE x * powInt(x, y - 1)

\* draw is the value returned by r.Int63n(max-min+1)
generateRandomOTP(length, draw) ==
    LET min == 1 * powInt(10, length - 1)
        max == 9 * powInt(10, length - 1)
    IN  FormatInt(min + draw)

\* (mutant) max is the next power of ten
otpSpanTen(length) == (10 * powInt(10, length - 1)) - (1 * powInt(10, length - 1)) + 1

\* max-min+1, the argument of r.Int63n: the draw is in 0..otpSpan-1
otpSpan(length) == (9 * powInt(10, length - 1)) - (1 * powInt(10, length - 1)) + 1

\* two values of r.Int63n(max-min+1): the lowest and one other
Draws == {0, Min(MaxDraw, (9 * powInt(10, OTPLength - 1)) - powInt(10, OTPLength - 1))}

(***************************************************************************)
(* Inputs: phone numbers, source addresses, submitted codes.               *)
(***************************************************************************)
PhoneNational == <<"0", "9", "1", "2", "3", "4", "5", "6", "7", "8", "9">>
PhoneIntl == <<"+", "9", "8", "9", "1", "2", "3", "4", "5", "6", "7", "8", "9">>
PhoneShort == <<"9", "1", "2", "3", "4", "5", "6", "7", "8", "9">>

Phones == {PhoneNational, PhoneIntl, PhoneShort}

IP1 == <<"1">>
IP2 == <<"2">>
IPs == {IP1, IP2}

ShortCode == <<"1", "2", "3", "4", "5">>
IssuedCodes == {generateRandomOTP(OTPLength, d) : d \in Draws}
SubmitCodes == IssuedCodes \cup {ShortCode}

\* handlers: the Iranian phone number check of RequestOTP and VerifyOTP
ValidPhone(ph) ==
    /\ ph # <<>>
    /\ \/ HasPrefix(ph, <<"+", "9", "8">>) /\ Len(ph) = 13
       \/ HasPrefix(ph, <<"9", "8">>) /\ Len(ph) = 12
       \/ HasPrefix(ph, <<"0", "9">>) /\ Len(ph) = 11

\* binding:"required,len=6,numeric" on VerifyOTPRequest.OTP
ValidOTPFormat(code) ==
    /\ Len(code) = 6
    /\ \A i \in 1..Len(code) : \E d \in 1..10 : code[i] = DigitChars[d]

(***************************************************************************)
(* Redis keys.                                                             *)
(***************************************************************************)
otpKeyPrefix == <<"o", "t", "p", ":">>
rateLimitKeyPrefix == <<"r", "a", "t", "e", "_", "l", "i", "m", "i", "t", ":">>
mwIpKeyPrefix == rateLimitKeyPrefix \o <<"o", "t", "p", ":", "i", "p", ":">>
mwPhoneKeyPrefix == rateLimitKeyPrefix \o <<"o", "t", "p", ":", "p", "h", "o", "n", "e", ":">>

\* (mutant) the challenge key without the phone number
otpKeyShared(ph) == otpKeyPrefix

otpKey(ph) == otpKeyPrefix \o ph
rateLimitKey(ph) == rateLimitKeyPrefix \o ph
ipKey(a) == mwIpKeyPrefix \o a
phoneKey(ph) == mwPhoneKeyPrefix \o ph

OtpKeys == {otpKey(ph) : ph \in Phones}
CounterKeys == {rateLimitKey(ph) : ph \in Phones} \cup {phoneKey(ph) : ph \in Phones}
                  \cup {ipKey(a) : a \in IPs}
Keys == OtpKeys \cup CounterKeys

NoExpiry == -1
\* an absent key; the value keeps the type of what the key holds
NoEntry(k) == [live |-> FALSE, val |-> IF k \in OtpKeys THEN <<>> ELSE 0, exp |-> NoExpiry, gen |-> 0]

(***************************************************************************)
(* Session tokens (JWT).  The signature is the MAC of the header's         *)
(* algorithm and the claims under a key; rid and gen record the request    *)
(* and the challenge a token was minted for.                               *)
(***************************************************************************)
MAC(key, alg, uid, ph, exp) ==
    [key |-> key, alg |-> alg, user_id |-> uid, phone_number |-> ph, exp |-> exp]
NoMAC == MAC("", "", 0, <<>>, 0)

\* jwt.NewWithClaims(method, claims) and token.SignedString(key)
SignedString(alg, key, uid, ph, exp, rid, gen) ==
    [alg |-> alg, user_id |-> uid, phone_number |-> ph, exp |-> exp,
     sig |-> MAC(key, alg, uid, ph, exp), rid |-> rid, gen |-> gen]

\* no Authorization header
NoToken ==
    [alg |-> "", user_id |-> 0, phone_number |-> <<>>, exp |-> 0, sig |-> NoMAC,
     rid |-> 0, gen |-> 0]

\* request templates
RequestOTPCalls(phs, as) ==
    {[kind |-> "request", phone |-> ph, ip |-> a, otp |-> <<>>, scheme |-> <<>>,
      token |-> NoToken, id |-> 0] :
        ph \in phs, a \in as}
VerifyOTPCalls(phs, cs) ==
    {[kind |-> "verify", phone |-> ph, ip |-> IP1, otp |-> c, scheme |-> <<>>,
      token |-> NoToken, id |-> 0] :
        ph \in phs, c \in cs}
\* the words before the token in the Authorization header
Bearer == <<"B", "e", "a", "r", "e", "r">>
BearerUpper == <<"B", "E", "A", "R", "E", "R">>
Basic == <<"B", "a", "s", "i", "c">>

\* GET /v1/users with "Authorization: <scheme> <token>"; no header at all
\* when there is neither
SchemeCalls(ss, ts) ==
    {[kind |-> "auth", phone |-> <<>>, ip |-> IP1, otp |-> <<>>, scheme |-> sc,
      token |-> t, id |-> 0] :
        sc \in ss, t \in ts}
AuthCalls(ts) ==
    SchemeCalls({<<>>}, ts \cap {NoToken}) \cup SchemeCalls({Bearer}, ts \ {NoToken})
NoCall ==
    [kind |-> "none", phone |-> <<>>, ip |-> <<>>, otp |-> <<>>, scheme |-> <<>>,
     token |-> NoToken, id |-> 0]

NoOutcome == [kind |-> "none", by |-> "none"]
NoLocals == [nil |-> FALSE, count |-> 0, gen |-> 0]
NoIssue == [code |-> <<>>, at |-> -1, gen |-> 0]
NoCtx == [user_id |-> 0, phone_number |-> <<>>]
NoInterval == [from |-> -1, count |-> 0]

VARIABLES
    now,        \* the clock
    limit,      \* cfg.OTP.RateLimit.Count
    store,      \* Redis: key -> entry (value, expiry instant, issue number)
    users,      \* Postgres users table: set of [id, phone_number]
    nextId,     \* next value of uuid.New()
    sessions,   \* tokens minted by generateJWT
    pc,         \* worker -> position in its handler chain
    req,        \* worker -> the request it serves
    loc,        \* worker -> result of its last read
    outcome,    \* worker -> outcome of its request
    trace,      \* worker -> Redis commands its request has issued
    nreq,       \* requests begun
    ngen,       \* challenges issued (StoreOTP calls)
    issued,     \* phone -> the last challenge StoreOTP wrote
    consumed,   \* issue numbers deleted by a verification that matched them
    reqDone,    \* phone -> completed RequestChallenge calls
    admitted,   \* phone -> RequestChallenge calls that returned success
    limited,    \* phone -> RequestChallenge calls that were RateLimited
    interval,   \* an observed time interval of one window: its start, the calls admitted in it
    ipSeen,     \* address -> requests that reached the address check
    ipPassed,   \* address -> requests that passed the address check
    expired,    \* some rate counter has expired
    lastOp,     \* time of the last rate-counter command
    quiet,      \* worker -> its phone was RateLimited and a full window has passed since lastOp
    otpLen,     \* cfg.OTP.Length
    ctx,        \* worker -> what AuthRequired put in the gin context
    accepted    \* tokens AuthRequired has let through

vars == <<now, limit, store, users, nextId, sessions, pc, req, loc, outcome,
          trace, nreq, ngen, issued, consumed, reqDone, admitted, limited,
          interval, ipSeen, ipPassed, expired, lastOp, quiet, otpLen, ctx, accepted>>

cfgVars == <<limit, otpLen>>

dbVars == <<users, nextId, sessions>>
histVars == <<ngen, issued, consumed>>
tallyVars == <<reqDone, admitted, limited, interval>>
ipVars == <<ipSeen, ipPassed>>

\* the state after construction, the configured code length apart
Boot ==
    /\ now = 0
    /\ limit \in Limits
    /\ store = [k \in Keys |-> NoEntry(k)]
    /\ users = {}
    /\ nextId = 1
    /\ sessions = {}
    /\ pc = [p \in Procs |-> "idle"]
    /\ req = [p \in Procs |-> NoCall]
    /\ loc = [p \in Procs |-> NoLocals]
    /\ outcome = [p \in Procs |-> NoOutcome]
    /\ trace = [p \in Procs |-> <<>>]
    /\ nreq = 0
    /\ ngen = 0
    /\ issued = [ph \in Phones |-> NoIssue]
    /\ consumed = {}
    /\ reqDone = [ph \in Phones |-> 0]
    /\ admitted = [ph \in Phones |-> 0]
    /\ limited = [ph \in Phones |-> 0]
    /\ interval = NoInterval
    /\ ipSeen = [a \in IPs |-> 0]
    /\ ipPassed = [a \in IPs |-> 0]
    /\ expired = FALSE
    /\ lastOp = -1
    /\ quiet = [p \in Procs |-> FALSE]
    /\ ctx = [p \in Procs |-> NoCtx]
    /\ accepted = {}

Init == Boot /\ otpLen = OTPLength

(***************************************************************************)
(* Redis commands.                                                         *)
(***************************************************************************)
Live(k) == store[k].live

\* (mutant) the entry outlives its TTL by one tick
ExpiredLate(e, t) == e.exp # NoExpiry /\ e.exp < t

\* an entry with expiry instant e is gone at time t
Expired(e, t) == e.exp # NoExpiry /\ e.exp <= t

\* (mutant) SET that keeps an existing entry, as SETNX would
RedisSetKeepExisting(k, v, ttl, g) ==
    IF Live(k) THEN store
    ELSE [store EXCEPT ![k] = [live |-> TRUE, val |-> v, exp |-> now + ttl, gen |-> g]]

\* SET key val EX ttl: value and expiry are both replaced
RedisSet(k, v, ttl, g) ==
    [store EXCEPT ![k] = [live |-> TRUE, val |-> v, exp |-> now + ttl, gen |-> g]]

\* (mutant) INCR whose increment of an existing key is lost
RedisIncrLost(k) ==
    IF Live(k) THEN store
    ELSE [store EXCEPT ![k] = [live |-> TRUE, val |-> 1, exp |-> NoExpiry, gen |-> 0]]

\* INCR key: an absent key is created with value 1 and no expiry
RedisIncr(k) ==
    IF Live(k) THEN [store EXCEPT ![k].val = @ + 1]
    ELSE [store EXCEPT ![k] = [live |-> TRUE, val |-> 1, exp |-> NoExpiry, gen |-> 0]]

\* (mutant) DEL that leaves the key in place
RedisDelLost(k) == store

\* DEL key
RedisDel(k) == [store EXCEPT ![k] = NoEntry(k)]

\* time passes; Redis drops the keys whose TTL has run out
Tick(horizon) ==
    /\ now < horizon
    /\ now' = now + 1
    /\ store' = [k \in Keys |->
                    IF Live(k) /\ Expired(store[k], now + 1) THEN NoEntry(k) ELSE store[k]]
    /\ expired' = (expired \/ \E k \in CounterKeys : Live(k) /\ Expired(store[k], now + 1))
    /\ UNCHANGED <<cfgVars, dbVars, pc, req, loc, outcome, trace, nreq, histVars,
                   tallyVars, ipVars, lastOp, quiet, ctx, accepted>>

Finish(p, kind, by) ==
    /\ pc' = [pc EXCEPT ![p] = "done"]
    /\ outcome' = [outcome EXCEPT ![p] = [kind |-> kind, by |-> by]]

Goto(p, label) ==
    /\ pc' = [pc EXCEPT ![p] = label]
    /\ UNCHANGED outcome

Did(p, op, k) == trace' = [trace EXCEPT ![p] = Append(@, <<op, k>>)]

\* the instants of the observed interval: one window, both ends included
InInterval(t) == interval.from >= 0 /\ interval.from <= t /\ t <= interval.from + Window

\* the observation of an interval of one window starts now
OpenInterval ==
    /\ interval = NoInterval
    /\ interval' = [from |-> now, count |-> 0]
    /\ UNCHANGED <<now, cfgVars, store, dbVars, pc, req, loc, outcome, trace, nreq, histVars,
                   reqDone, admitted, limited, ipVars, expired, lastOp, quiet, ctx, accepted>>

\* a RequestChallenge call ends: count it by outcome
Tally(p, kind) ==
    LET ph == req[p].phone IN
    /\ reqDone' = [reqDone EXCEPT ![ph] = @ + 1]
    /\ admitted' = [admitted EXCEPT ![ph] = IF kind = "Accepted" THEN @ + 1 ELSE @]
    /\ limited' = [limited EXCEPT ![ph] = IF kind = "RateLimited" THEN @ + 1 ELSE @]
    /\ interval' = IF kind = "Accepted" /\ InInterval(now)
                     THEN [interval EXCEPT !.count = @ + 1]
                     ELSE interval

(***************************************************************************)
(* gin serves every request in a goroutine of its own; workers are         *)
(* interchangeable, so a new request goes to the lowest free worker.       *)
(***************************************************************************)
Free(p) == pc[p] \in {"idle", "done"}

BeginRequest(p, budget, calls) ==
    /\ Free(p)
    /\ \A q \in Procs : q < p => ~Free(q)
    /\ nreq < budget
    /\ \E c \in calls :
        /\ req' = [req EXCEPT ![p] = [c EXCEPT !.id = nreq + 1]]
        /\ pc' = [pc EXCEPT ![p] = CASE c.kind = "request" -> "mw_ip_get"
                                      [] c.kind = "verify" -> "v_get"
                                      [] OTHER -> "auth"]
        /\ quiet' = [quiet EXCEPT ![p] = /\ c.kind = "request"
                                         /\ limited[c.phone] > 0
                                         /\ lastOp >= 0
                                         /\ now >= lastOp + Window]
    /\ nreq' = nreq + 1
    /\ outcome' = [outcome EXCEPT ![p] = NoOutcome]
    /\ trace' = [trace EXCEPT ![p] = <<>>]
    /\ loc' = [loc EXCEPT ![p] = NoLocals]
    /\ ctx' = [ctx EXCEPT ![p] = NoCtx]
    /\ UNCHANGED <<now, cfgVars, store, dbVars, histVars, tallyVars, ipVars, expired, lastOp,
                   accepted>>

(***************************************************************************)
(* RateLimitMiddleware.OTPRateLimit                                        *)
(***************************************************************************)
\* (mutant) the address limit without its factor of two
ipLimitExceededNoFactor(ipCount, lim) == ipCount >= lim

\* "if ipCount >= limit*2": the address limit is twice the phone limit
ipLimitExceeded(ipCount, lim) == ipCount >= lim * 2

\* ipCount, err := Get(ipKey).Int(); deny when the address limit is exceeded
MwIpGet(p) ==
    LET k == ipKey(req[p].ip)
        a == req[p].ip
        deny == Live(k) /\ ipLimitExceeded(store[k].val, limit)
    IN
    /\ pc[p] = "mw_ip_get"
    /\ Did(p, "get", k)
    /\ loc' = [loc EXCEPT ![p] = [nil |-> ~Live(k),
                                  count |-> IF Live(k) THEN store[k].val ELSE 0,
                                  gen |-> 0]]
    /\ ipSeen' = [ipSeen EXCEPT ![a] = @ + 1]
    /\ ipPassed' = [ipPassed EXCEPT ![a] = IF deny THEN @ ELSE @ + 1]
    /\ lastOp' = now
    /\ IF deny
         THEN /\ Finish(p, "RateLimited", "mw_ip")
              /\ Tally(p, "RateLimited")
         ELSE /\ Goto(p, "mw_ip_write")
              /\ UNCHANGED tallyVars
    /\ UNCHANGED <<now, cfgVars, store, dbVars, req, nreq, histVars, expired, quiet, ctx, accepted>>

\* phoneBasedLimiting: the body parsed and phone_number is not empty
phoneBasedLimiting(p) == req[p].phone # <<>>

\* (mutant) the Set branch falls through into the Incr
MwIpWriteTwice(p) ==
    LET k == ipKey(req[p].ip) IN
    /\ pc[p] = "mw_ip_write"
    /\ IF loc[p].nil
         THEN /\ store' = [RedisSet(k, 1, Window, 0) EXCEPT ![k].val = 2]
              /\ trace' = [trace EXCEPT ![p] = @ \o << <<"set", k>>, <<"incr", k>> >>]
         ELSE /\ store' = RedisIncr(k)
              /\ Did(p, "incr", k)
    /\ lastOp' = now
    /\ Goto(p, IF phoneBasedLimiting(p) THEN "mw_phone_get" ELSE "svc_check")
    /\ UNCHANGED <<now, cfgVars, dbVars, req, loc, nreq, histVars, tallyVars, ipVars,
                   expired, quiet, ctx, accepted>>

\* Set(ipKey, 1, window) when the read found nothing, else Incr(ipKey)
MwIpWrite(p) ==
    LET k == ipKey(req[p].ip) IN
    /\ pc[p] = "mw_ip_write"
    /\ IF loc[p].nil
         THEN /\ store' = RedisSet(k, 1, Window, 0)
              /\ Did(p, "set", k)
         ELSE /\ store' = RedisIncr(k)
              /\ Did(p, "incr", k)
    /\ lastOp' = now
    /\ Goto(p, IF phoneBasedLimiting(p) THEN "mw_phone_get" ELSE "svc_check")
    /\ UNCHANGED <<now, cfgVars, dbVars, req, loc, nreq, histVars, tallyVars, ipVars,
                   expired, quiet, ctx, accepted>>

\* phoneCount, err := Get(phoneKey).Int(); deny when phoneCount >= limit
MwPhoneGet(p) ==
    LET k == phoneKey(req[p].phone)
        deny == Live(k) /\ store[k].val >= limit
    IN
    /\ pc[p] = "mw_phone_get"
    /\ Did(p, "get", k)
    /\ loc' = [loc EXCEPT ![p] = [nil |-> ~Live(k),
                                  count |-> IF Live(k) THEN store[k].val ELSE 0,
                                  gen |-> 0]]
    /\ lastOp' = now
    /\ IF deny
         THEN /\ Finish(p, "RateLimited", "mw_phone")
              /\ Tally(p, "RateLimited")
         ELSE /\ Goto(p, "mw_phone_write")
              /\ UNCHANGED tallyVars
    /\ UNCHANGED <<now, cfgVars, store, dbVars, req, nreq, histVars, ipVars, expired, quiet, ctx, accepted>>

\* Set(phoneKey, 1, window) when the read found nothing, else Incr(phoneKey)
MwPhoneWrite(p) ==
    LET k == phoneKey(req[p].phone) IN
    /\ pc[p] = "mw_phone_write"
    /\ IF loc[p].nil
         THEN /\ store' = RedisSet(k, 1, Window, 0)
              /\ Did(p, "set", k)
         ELSE /\ store' = RedisIncr(k)
              /\ Did(p, "incr", k)
    /\ lastOp' = now
    /\ Goto(p, "svc_check")
    /\ UNCHANGED <<now, cfgVars, dbVars, req, loc, nreq, histVars, tallyVars, ipVars,
                   expired, quiet, ctx, accepted>>

(***************************************************************************)
(* AuthHandler.RequestOTP and AuthService.GenerateOTP                      *)
(***************************************************************************)
\* (mutant) GenerateOTP stores the challenge before it checks the counter
SvcCheckStoreFirst(p) ==
    LET ph == req[p].phone
        k == rateLimitKey(ph)
        count == IF Live(k) THEN store[k].val ELSE 0
    IN
    /\ pc[p] = "svc_check"
    /\ ValidPhone(ph)
    /\ store' = RedisSet(otpKey(ph), generateRandomOTP(otpLen, 0), OTPExpiration, 0)
    /\ trace' = [trace EXCEPT ![p] = @ \o << <<"set", otpKey(ph)>>, <<"get", k>> >>]
    /\ lastOp' = now
    /\ IF count >= limit
         THEN /\ Finish(p, "RateLimited", "service")
              /\ Tally(p, "RateLimited")
         ELSE /\ Goto(p, "svc_store")
              /\ UNCHANGED tallyVars
    /\ UNCHANGED <<now, cfgVars, dbVars, req, loc, nreq, histVars, ipVars, expired, quiet, ctx, accepted>>

\* the handler validates the phone number, then CheckRateLimit reads the
\* service's own counter: exceeded = count >= limit
SvcCheck(p) ==
    LET ph == req[p].phone
        k == rateLimitKey(ph)
        count == IF Live(k) THEN store[k].val ELSE 0
    IN
    /\ pc[p] = "svc_check"
    /\ IF ~ValidPhone(ph)
         THEN /\ Finish(p, "ValidationError", "handler")
              /\ Tally(p, "ValidationError")
              /\ UNCHANGED <<trace, lastOp>>
         ELSE /\ Did(p, "get", k)
              /\ lastOp' = now
              /\ IF count >= limit
                   THEN /\ Finish(p, "RateLimited", "service")
                        /\ Tally(p, "RateLimited")
                   ELSE /\ Goto(p, "svc_store")
                        /\ UNCHANGED tallyVars
    /\ UNCHANGED <<now, cfgVars, store, dbVars, req, loc, nreq, histVars, ipVars,
                   expired, quiet, ctx, accepted>>

\* otp := generateRandomOTP(length); StoreOTP(phone, otp, expiration)
SvcStore(p, draws) ==
    LET ph == req[p].phone IN
    /\ pc[p] = "svc_store"
    /\ \E d \in draws :
        LET otp == generateRandomOTP(otpLen, d) IN
        /\ store' = RedisSet(otpKey(ph), otp, OTPExpiration, ngen + 1)
        /\ issued' = [issued EXCEPT ![ph] = [code |-> otp, at |-> now, gen |-> ngen + 1]]
    /\ ngen' = ngen + 1
    /\ Did(p, "set", otpKey(ph))
    /\ Goto(p, "svc_exists")
    /\ UNCHANGED <<now, cfgVars, dbVars, req, loc, nreq, consumed, tallyVars, ipVars,
                   expired, lastOp, quiet, ctx, accepted>>

\* IncrementRateLimit: exists := Exists(key)
SvcExists(p) ==
    LET k == rateLimitKey(req[p].phone) IN
    /\ pc[p] = "svc_exists"
    /\ loc' = [loc EXCEPT ![p] = [nil |-> ~Live(k), count |-> 0, gen |-> 0]]
    /\ Did(p, "exists", k)
    /\ lastOp' = now
    /\ Goto(p, "svc_write")
    /\ UNCHANGED <<now, cfgVars, store, dbVars, req, nreq, histVars, tallyVars, ipVars,
                   expired, quiet, ctx, accepted>>

\* IncrementRateLimit: Set(key, 1, window) when exists == 0, else Incr(key);
\* GenerateOTP returns the code and the handler answers 200
SvcWrite(p) ==
    LET k == rateLimitKey(req[p].phone) IN
    /\ pc[p] = "svc_write"
    /\ IF loc[p].nil
         THEN /\ store' = RedisSet(k, 1, Window, 0)
              /\ Did(p, "set", k)
         ELSE /\ store' = RedisIncr(k)
              /\ Did(p, "incr", k)
    /\ lastOp' = now
    /\ Finish(p, "Accepted", "handler")
    /\ Tally(p, "Accepted")
    /\ UNCHANGED <<now, cfgVars, dbVars, req, loc, nreq, histVars, ipVars, expired, quiet, ctx, accepted>>

(***************************************************************************)
(* AuthHandler.VerifyOTP and AuthService.VerifyOTP                         *)
(***************************************************************************)
\* generateJWT(user): claims user_id, phone_number and exp, signed HS256
\* with the configured secret
generateJWT(p, u) ==
    SignedString("HS256", JWTSecret, u.id, u.phone_number, now + JWTExpiration,
                 req[p].id, loc[p].gen)

\* (mutant) VerifyOTP that deletes the challenge on a mismatch too
VerifyGetConsumeOnMiss(p) ==
    LET ph == req[p].phone
        k == otpKey(ph)
    IN
    /\ pc[p] = "v_get"
    /\ IF ~ValidOTPFormat(req[p].otp) \/ ~ValidPhone(ph)
         THEN /\ Finish(p, "ValidationError", "handler")
              /\ UNCHANGED <<trace, loc, store>>
         ELSE /\ Did(p, "get", k)
              /\ IF ~Live(k)
                   THEN /\ Finish(p, "InvalidOrExpired", "fetch")
                        /\ UNCHANGED <<loc, store>>
                   ELSE IF store[k].val # req[p].otp
                   THEN /\ Finish(p, "InvalidOrExpired", "compare")
                        /\ store' = RedisDel(k)
                        /\ UNCHANGED loc
                   ELSE /\ Goto(p, "v_del")
                        /\ loc' = [loc EXCEPT ![p] = [nil |-> FALSE, count |-> 0,
                                                      gen |-> store[k].gen]]
                        /\ UNCHANGED store
    /\ UNCHANGED <<now, cfgVars, dbVars, req, nreq, histVars, tallyVars, ipVars,
                   expired, lastOp, quiet, ctx, accepted>>

\* (mutant) VerifyOTP without the comparison storedOTP != otp
VerifyGetNoCompare(p) ==
    LET ph == req[p].phone
        k == otpKey(ph)
    IN
    /\ pc[p] = "v_get"
    /\ IF ~ValidOTPFormat(req[p].otp) \/ ~ValidPhone(ph)
         THEN /\ Finish(p, "ValidationError", "handler")
              /\ UNCHANGED <<trace, loc>>
         ELSE /\ Did(p, "get", k)
              /\ IF ~Live(k)
                   THEN /\ Finish(p, "InvalidOrExpired", "fetch")
                        /\ UNCHANGED loc
                   ELSE /\ Goto(p, "v_del")
                        /\ loc' = [loc EXCEPT ![p] = [nil |-> FALSE, count |-> 0,
                                                      gen |-> store[k].gen]]
    /\ UNCHANGED <<now, cfgVars, store, dbVars, req, nreq, histVars, tallyVars, ipVars,
                   expired, lastOp, quiet, ctx, accepted>>

\* binding and phone validation, then storedOTP := GetOTP(phone) and the
\* comparison storedOTP != otp
VerifyGet(p) ==
    LET ph == req[p].phone
        k == otpKey(ph)
    IN
    /\ pc[p] = "v_get"
    /\ IF ~ValidOTPFormat(req[p].otp) \/ ~ValidPhone(ph)
         THEN /\ Finish(p, "ValidationError", "handler")
              /\ UNCHANGED <<trace, loc>>
         ELSE /\ Did(p, "get", k)
              /\ IF ~Live(k)
                   THEN /\ Finish(p, "InvalidOrExpired", "fetch")
                        /\ UNCHANGED loc
                   ELSE IF store[k].val # req[p].otp
                   THEN /\ Finish(p, "InvalidOrExpired", "compare")
                        /\ UNCHANGED loc
                   ELSE /\ Goto(p, "v_del")
                        /\ loc' = [loc EXCEPT ![p] = [nil |-> FALSE, count |-> 0,
                                                      gen |-> store[k].gen]]
    /\ UNCHANGED <<now, cfgVars, store, dbVars, req, nreq, histVars, tallyVars, ipVars,
                   expired, lastOp, quiet, ctx, accepted>>

\* (mutant) DeleteOTP that fails when there is no key to delete
VerifyDeleteStrict(p) ==
    LET k == otpKey(req[p].phone) IN
    /\ pc[p] = "v_del"
    /\ store' = RedisDel(k)
    /\ consumed' = consumed \cup {loc[p].gen}
    /\ Did(p, "del", k)
    /\ IF Live(k) THEN Goto(p, "v_find") ELSE Finish(p, "StoreError", "delete")
    /\ UNCHANGED <<now, cfgVars, dbVars, req, loc, nreq, ngen, issued, tallyVars, ipVars,
                   expired, lastOp, quiet, ctx, accepted>>

\* (mutant) DeleteOTP that compares again and gives up when the stored code
\* is no longer the submitted one
VerifyDeleteCompare(p) ==
    LET k == otpKey(req[p].phone)
        same == Live(k) /\ store[k].val = req[p].otp
    IN
    /\ pc[p] = "v_del"
    /\ store' = IF same THEN RedisDel(k) ELSE store
    /\ consumed' = IF same THEN consumed \cup {loc[p].gen} ELSE consumed
    /\ Did(p, "del", k)
    /\ IF same \/ ~Live(k) THEN Goto(p, "v_find") ELSE Finish(p, "InvalidOrExpired", "delete")
    /\ UNCHANGED <<now, cfgVars, dbVars, req, loc, nreq, ngen, issued, tallyVars, ipVars,
                   expired, lastOp, quiet, ctx, accepted>>

\* DeleteOTP(phone)
VerifyDelete(p) ==
    LET k == otpKey(req[p].phone) IN
    /\ pc[p] = "v_del"
    /\ store' = RedisDel(k)
    /\ consumed' = consumed \cup {loc[p].gen}
    /\ Did(p, "del", k)
    /\ Goto(p, "v_find")
    /\ UNCHANGED <<now, cfgVars, dbVars, req, loc, nreq, ngen, issued, tallyVars, ipVars,
                   expired, lastOp, quiet, ctx, accepted>>

\* user, err := FindByPhoneNumber(phone); a found user gets its token
VerifyFind(p) ==
    LET found == {u \in users : u.phone_number = req[p].phone} IN
    /\ pc[p] = "v_find"
    /\ IF found = {}
         THEN /\ Goto(p, "v_create")
              /\ UNCHANGED sessions
         ELSE /\ \E u \in found : sessions' = sessions \cup {generateJWT(p, u)}
              /\ Finish(p, "Success", "handler")
    /\ UNCHANGED <<now, cfgVars, store, users, nextId, req, loc, trace, nreq, histVars,
                   tallyVars, ipVars, expired, lastOp, quiet, ctx, accepted>>

\* (mutant) Create on a table without the UNIQUE constraint
VerifyCreateNoUnique(p) ==
    LET ph == req[p].phone
        u == [id |-> nextId, phone_number |-> ph]
    IN
    /\ pc[p] = "v_create"
    /\ users' = users \cup {u}
    /\ nextId' = nextId + 1
    /\ sessions' = sessions \cup {generateJWT(p, u)}
    /\ Finish(p, "Success", "handler")
    /\ UNCHANGED <<now, cfgVars, store, req, loc, trace, nreq, histVars, tallyVars,
                   ipVars, expired, lastOp, quiet, ctx, accepted>>

\* user, err = Create(phone): INSERT fails on the UNIQUE phone_number
VerifyCreate(p) ==
    LET ph == req[p].phone
        u == [id |-> nextId, phone_number |-> ph]
    IN
    /\ pc[p] = "v_create"
    /\ IF \E x \in users : x.phone_number = ph
         THEN /\ Finish(p, "StoreError", "create")
              /\ UNCHANGED dbVars
         ELSE /\ users' = users \cup {u}
              /\ nextId' = nextId + 1
              /\ sessions' = sessions \cup {generateJWT(p, u)}
              /\ Finish(p, "Success", "handler")
    /\ UNCHANGED <<now, cfgVars, store, req, loc, trace, nreq, histVars, tallyVars,
                   ipVars, expired, lastOp, quiet, ctx, accepted>>

(***************************************************************************)
(* JWTAuthMiddleware.AuthRequired and the users table operations.          *)
(***************************************************************************)
\* token.Method.(*jwt.SigningMethodHMAC): the HMAC family
SigningMethodHMAC == {"HS256", "HS384", "HS512"}

\* (mutant) the exp claim is not looked at
TokenExpiredNever(t, at) == FALSE

\* the exp claim: valid while now is before exp
TokenExpired(t, at) == ~(at < t.exp)

\* strings.ToLower on the letters the schemes are written with
UpperChars == <<"B", "E", "A", "R", "S", "I", "C">>
LowerChars == <<"b", "e", "a", "r", "s", "i", "c">>

ToLower(s) ==
    [i \in 1..Len(s) |->
        IF \E j \in 1..Len(UpperChars) : s[i] = UpperChars[j]
          THEN LowerChars[CHOOSE j \in 1..Len(UpperChars) : s[i] = UpperChars[j]]
          ELSE s[i]]

\* uuid.Parse(userIDStr) succeeds: ids made by uuid.New() are 1, 2, ...
IsUUID(uid) == uid >= 1

\* claims["phone_number"].(string): the claim is there
HasPhoneClaim(t) == t.phone_number # <<>>

Verdict(kind, by) == [kind |-> kind, by |-> by]

\* (mutant) AuthRequired that answers every error of jwt.Parse with the one
\* text "Invalid token"
AuthRequiredFailureCollapsed(by) ==
    [status |-> 401,
     error |-> CASE by = "header" -> "Authorization header is required"
                 [] by = "scheme" -> "Authorization header must be 'Bearer <token>'"
                 [] by = "user_id" -> "Invalid user ID in token"
                 [] by = "phone_number" -> "Invalid token claims"
                 [] OTHER -> "Invalid token"]

\* the response AuthRequired aborts with, by the place it returned from:
\* always 401; an error of jwt.Parse is answered "Invalid token: %v" with the
\* text of the library's error
AuthRequiredFailure(by) ==
    [status |-> 401,
     error |-> CASE by = "header" -> "Authorization header is required"
                 [] by = "scheme" -> "Authorization header must be 'Bearer <token>'"
                 [] by = "malformed" -> "Invalid token: " \o "token is malformed"
                 [] by = "method" ->
                        "Invalid token: " \o "token is unverifiable: unexpected signing method"
                 [] by = "signature" -> "Invalid token: " \o "token signature is invalid"
                 [] by = "exp" -> "Invalid token: " \o "token has invalid claims: token is expired"
                 [] by = "user_id" -> "Invalid user ID in token"
                 [] OTHER -> "Invalid token claims"]

\* (mutant) AuthRequired without the checks of the user_id and phone_number
\* claims
AuthVerdictNoClaims(sc, t, at) ==
    IF sc = <<>> /\ t = NoToken THEN Verdict("Unauthorized", "header")
    ELSE IF ToLower(sc) # <<"b", "e", "a", "r", "e", "r">> THEN Verdict("Unauthorized", "scheme")
    ELSE IF t = NoToken THEN Verdict("TokenInvalid", "malformed")
    ELSE IF t.alg \notin SigningMethodHMAC THEN Verdict("TokenInvalid", "method")
    ELSE IF t.sig # MAC(JWTSecret, t.alg, t.user_id, t.phone_number, t.exp)
      THEN Verdict("TokenInvalid", "signature")
    ELSE IF TokenExpired(t, at) THEN Verdict("TokenExpired", "exp")
    ELSE Verdict("Success", "auth")

\* AuthRequired up to c.Next(): the header is there and is "Bearer <token>"
\* in any letter case; jwt.Parse: the key function rejects a method outside
\* the HMAC family, then the signature is verified with the configured
\* secret, then exp; then user_id must parse as a UUID and phone_number be
\* there
AuthVerdict(sc, t, at) ==
    IF sc = <<>> /\ t = NoToken THEN Verdict("Unauthorized", "header")
    ELSE IF ToLower(sc) # <<"b", "e", "a", "r", "e", "r">> THEN Verdict("Unauthorized", "scheme")
    ELSE IF t = NoToken THEN Verdict("TokenInvalid", "malformed")
    ELSE IF t.alg \notin SigningMethodHMAC THEN Verdict("TokenInvalid", "method")
    ELSE IF t.sig # MAC(JWTSecret, t.alg, t.user_id, t.phone_number, t.exp)
      THEN Verdict("TokenInvalid", "signature")
    ELSE IF TokenExpired(t, at) THEN Verdict("TokenExpired", "exp")
    ELSE IF ~IsUUID(t.user_id) THEN Verdict("TokenInvalid", "user_id")
    ELSE IF ~HasPhoneClaim(t) THEN Verdict("TokenInvalid", "phone_number")
    ELSE Verdict("Success", "auth")

\* (mutant) AuthRequired also looks the user up and rejects a token whose
\* user row is gone or changed
AuthRequiredWithLookup(p) ==
    LET t == req[p].token
        v == AuthVerdict(req[p].scheme, t, now)
        known == \E u \in users : u.id = t.user_id /\ u.phone_number = t.phone_number
    IN
    /\ pc[p] = "auth"
    /\ IF v.kind = "Success" /\ known
         THEN /\ Finish(p, "Success", "auth")
              /\ ctx' = [ctx EXCEPT ![p] = [user_id |-> t.user_id,
                                            phone_number |-> t.phone_number]]
              /\ accepted' = accepted \cup {t}
         ELSE /\ IF v.kind = "Success"
                   THEN Finish(p, "TokenInvalid", "user")
                   ELSE Finish(p, v.kind, v.by)
              /\ UNCHANGED <<ctx, accepted>>
    /\ UNCHANGED <<now, cfgVars, store, dbVars, req, loc, trace, nreq, histVars,
                   tallyVars, ipVars, expired, lastOp, quiet>>

\* JWTAuthMiddleware.AuthRequired: a request that passes gets user_id and
\* phone_number in its context and goes on to the user handler (c.Next());
\* every other request is answered 401 and aborted
AuthRequired(p) ==
    LET t == req[p].token
        v == AuthVerdict(req[p].scheme, t, now)
    IN
    /\ pc[p] = "auth"
    /\ Finish(p, v.kind, v.by)
    /\ IF v.kind = "Success"
         THEN /\ ctx' = [ctx EXCEPT ![p] = [user_id |-> t.user_id,
                                            phone_number |-> t.phone_number]]
              /\ accepted' = accepted \cup {t}
         ELSE UNCHANGED <<ctx, accepted>>
    /\ UNCHANGED <<now, cfgVars, store, dbVars, req, loc, trace, nreq, histVars,
                   tallyVars, ipVars, expired, lastOp, quiet>>

\* PostgresUserRepository.Update: UPDATE users SET phone_number WHERE id;
\* the UNIQUE constraint on phone_number makes a clashing update fail
UserUpdate(phs) ==
    /\ \E u \in users, ph \in phs :
        /\ ph # u.phone_number
        /\ ~\E x \in users : x.phone_number = ph
        /\ users' = (users \ {u}) \cup {[u EXCEPT !.phone_number = ph]}
    /\ UNCHANGED <<now, cfgVars, store, nextId, sessions, pc, req, loc, outcome, trace,
                   nreq, histVars, tallyVars, ipVars, expired, lastOp, quiet, ctx, accepted>>

\* PostgresUserRepository.Delete: DELETE FROM users WHERE id
UserDelete ==
    /\ \E u \in users : users' = users \ {u}
    /\ UNCHANGED <<now, cfgVars, store, nextId, sessions, pc, req, loc, outcome, trace,
                   nreq, histVars, tallyVars, ipVars, expired, lastOp, quiet, ctx, accepted>>

\* what a client can present for a token it was given: the token, the same
\* claims under other algorithms and keys, and the token with claims altered
Forgeries(t) ==
    {SignedString("HS512", JWTSecret, t.user_id, t.phone_number, t.exp, t.rid, t.gen),
     SignedString("RS256", "public-key", t.user_id, t.phone_number, t.exp, t.rid, t.gen),
     SignedString("none", "", t.user_id, t.phone_number, t.exp, t.rid, t.gen),
     SignedString("HS256", "guess", t.user_id, t.phone_number, t.exp, t.rid, t.gen),
     [t EXCEPT !.user_id = @ + 1],
     [t EXCEPT !.exp = @ + 1]}

Presentable == {NoToken} \cup sessions \cup UNION {Forgeries(t) : t \in sessions}

(***************************************************************************)
(* Redis commands that fail (connection lost, timeout): the command has    *)
(* no effect on the store and returns an error other than redis.Nil.       *)
(***************************************************************************)
Failed(p) == \E i \in 1..Len(trace[p]) : trace[p][i][1] = "fail"

\* Get(ipKey) fails: 500 "Error checking rate limit"
MwIpGetFail(p) ==
    /\ pc[p] = "mw_ip_get"
    /\ Did(p, "fail", ipKey(req[p].ip))
    /\ Finish(p, "StoreError", "mw_ip")
    /\ Tally(p, "StoreError")
    /\ UNCHANGED <<now, cfgVars, store, dbVars, req, loc, nreq, histVars, ipVars,
                   expired, lastOp, quiet, ctx, accepted>>

\* Set(ipKey) or Incr(ipKey) fails: the result is not looked at
MwIpWriteFail(p) ==
    /\ pc[p] = "mw_ip_write"
    /\ Did(p, "fail", ipKey(req[p].ip))
    /\ Goto(p, IF phoneBasedLimiting(p) THEN "mw_phone_get" ELSE "svc_check")
    /\ UNCHANGED <<now, cfgVars, store, dbVars, req, loc, nreq, histVars, tallyVars,
                   ipVars, expired, lastOp, quiet, ctx, accepted>>

\* Get(phoneKey) fails: 500 "Error checking rate limit"
MwPhoneGetFail(p) ==
    /\ pc[p] = "mw_phone_get"
    /\ Did(p, "fail", phoneKey(req[p].phone))
    /\ Finish(p, "StoreError", "mw_phone")
    /\ Tally(p, "StoreError")
    /\ UNCHANGED <<now, cfgVars, store, dbVars, req, loc, nreq, histVars, ipVars,
                   expired, lastOp, quiet, ctx, accepted>>

\* Set(phoneKey) or Incr(phoneKey) fails: the result is not looked at
MwPhoneWriteFail(p) ==
    /\ pc[p] = "mw_phone_write"
    /\ Did(p, "fail", phoneKey(req[p].phone))
    /\ Goto(p, "svc_check")
    /\ UNCHANGED <<now, cfgVars, store, dbVars, req, loc, nreq, histVars, tallyVars,
                   ipVars, expired, lastOp, quiet, ctx, accepted>>

\* CheckRateLimit fails: "error checking rate limit", 500
SvcCheckFail(p) ==
    /\ pc[p] = "svc_check"
    /\ ValidPhone(req[p].phone)
    /\ Did(p, "fail", rateLimitKey(req[p].phone))
    /\ Finish(p, "StoreError", "check")
    /\ Tally(p, "StoreError")
    /\ UNCHANGED <<now, cfgVars, store, dbVars, req, loc, nreq, histVars, ipVars,
                   expired, lastOp, quiet, ctx, accepted>>

\* StoreOTP fails: "error storing OTP", 500; no challenge is written
SvcStoreFail(p) ==
    /\ pc[p] = "svc_store"
    /\ Did(p, "fail", otpKey(req[p].phone))
    /\ Finish(p, "StoreError", "store")
    /\ Tally(p, "StoreError")
    /\ UNCHANGED <<now, cfgVars, store, dbVars, req, loc, nreq, histVars, ipVars,
                   expired, lastOp, quiet, ctx, accepted>>

\* IncrementRateLimit: Exists fails, "error incrementing rate limit", 500
SvcExistsFail(p) ==
    /\ pc[p] = "svc_exists"
    /\ Did(p, "fail", rateLimitKey(req[p].phone))
    /\ Finish(p, "StoreError", "exists")
    /\ Tally(p, "StoreError")
    /\ UNCHANGED <<now, cfgVars, store, dbVars, req, loc, nreq, histVars, ipVars,
                   expired, lastOp, quiet, ctx, accepted>>

\* IncrementRateLimit: Set or Incr fails, "error incrementing rate limit", 500
SvcWriteFail(p) ==
    /\ pc[p] = "svc_write"
    /\ Did(p, "fail", rateLimitKey(req[p].phone))
    /\ Finish(p, "StoreError", "record")
    /\ Tally(p, "StoreError")
    /\ UNCHANGED <<now, cfgVars, store, dbVars, req, loc, nreq, histVars, ipVars,
                   expired, lastOp, quiet, ctx, accepted>>

RequestStepFail(p) ==
    \/ MwIpGetFail(p)
    \/ MwIpWriteFail(p)
    \/ MwPhoneGetFail(p)
    \/ MwPhoneWriteFail(p)
    \/ SvcCheckFail(p)
    \/ SvcStoreFail(p)
    \/ SvcExistsFail(p)
    \/ SvcWriteFail(p)

(***************************************************************************)
(* Commands of a verification that fail: a Redis command or a query on the *)
(* users table returns an error (connection lost, timeout) and has no      *)
(* effect.                                                                 *)
(***************************************************************************)
\* GetOTP fails with an error other than redis.Nil: "error retrieving OTP:
\* error retrieving OTP: ...", 500
VerifyGetFail(p) ==
    /\ pc[p] = "v_get"
    /\ ValidOTPFormat(req[p].otp)
    /\ ValidPhone(req[p].phone)
    /\ Did(p, "fail", otpKey(req[p].phone))
    /\ Finish(p, "StoreError", "get")
    /\ UNCHANGED <<now, cfgVars, store, dbVars, req, loc, nreq, histVars, tallyVars, ipVars,
                   expired, lastOp, quiet, ctx, accepted>>

\* DeleteOTP fails: "error deleting OTP", 500; the challenge stays
VerifyDeleteFail(p) ==
    /\ pc[p] = "v_del"
    /\ Did(p, "fail", otpKey(req[p].phone))
    /\ Finish(p, "StoreError", "delete")
    /\ UNCHANGED <<now, cfgVars, store, dbVars, req, loc, nreq, histVars, tallyVars, ipVars,
                   expired, lastOp, quiet, ctx, accepted>>

\* FindByPhoneNumber fails: any error is taken for "user not found" and
\* Create is called
VerifyFindFail(p) ==
    /\ pc[p] = "v_find"
    /\ Did(p, "fail", "users")
    /\ Goto(p, "v_create")
    /\ UNCHANGED <<now, cfgVars, store, dbVars, req, loc, nreq, histVars, tallyVars, ipVars,
                   expired, lastOp, quiet, ctx, accepted>>

\* Create fails: "error creating user", 500; no row is inserted
VerifyCreateFail(p) ==
    /\ pc[p] = "v_create"
    /\ Did(p, "fail", "users")
    /\ Finish(p, "StoreError", "create")
    /\ UNCHANGED <<now, cfgVars, store, dbVars, req, loc, nreq, histVars, tallyVars, ipVars,
                   expired, lastOp, quiet, ctx, accepted>>

VerifyStepFail(p) ==
    \/ VerifyGetFail(p)
    \/ VerifyDeleteFail(p)
    \/ VerifyFindFail(p)
    \/ VerifyCreateFail(p)

(***************************************************************************)
(* Error strings of VerifyOTP and the response the handler builds.         *)
(***************************************************************************)
\* GetOTP on redis.Nil: fmt.Errorf("OTP not found or expired")
errOTPNotFound == "OTP not found or expired"

\* (mutant) VerifyOTP hands GetOTP's error on without wrapping it
VerifyOTPErrUnwrapped(by) ==
    CASE by = "fetch" -> errOTPNotFound
      [] by = "compare" -> "invalid OTP"
      [] OTHER -> "error creating user: " \o "error creating user: unique_violation"

\* err.Error() of AuthService.VerifyOTP, by the place it returned from
VerifyOTPErr(by) ==
    CASE by = "fetch" -> "error retrieving OTP: " \o errOTPNotFound
      [] by = "compare" -> "invalid OTP"
      [] OTHER -> "error creating user: " \o "error creating user: unique_violation"

\* AuthHandler.VerifyOTP, "if err != nil": status and error of the response
VerifyOTPFailure(err) ==
    IF err = "invalid OTP" \/ err = "error retrieving OTP: OTP not found or expired"
      THEN [status |-> 401, error |-> "Invalid or expired OTP"]
      ELSE [status |-> 500, error |-> "Error verifying OTP: " \o err]

\* (mutant) RequestOTP that returns the code in its response
RequestOTPSuccessEcho(otp) ==
    [status |-> 200, message |-> <<"OTP sent successfully.", otp>>]

\* AuthHandler.RequestOTP after GenerateOTP returned otp: the 200 response
RequestOTPSuccess(otp) ==
    [status |-> 200, message |-> <<"OTP sent successfully. Check server logs for the code.">>]

\* fmt.Printf("[OTP] Phone: %s, Code: %s\n", phoneNumber, otp)
RequestOTPLog(ph, otp) == <<"[OTP] Phone: ", ph, ", Code: ", otp>>

(***************************************************************************)
(* Specifications.                                                         *)
(***************************************************************************)
RequestStep(p, draws) ==
    \/ MwIpGet(p)
    \/ MwIpWrite(p)
    \/ MwPhoneGet(p)
    \/ MwPhoneWrite(p)
    \/ SvcCheck(p)
    \/ SvcStore(p, draws)
    \/ SvcExists(p)
    \/ SvcWrite(p)

VerifyStep(p) ==
    \/ VerifyGet(p)
    \/ VerifyDelete(p)
    \/ VerifyFind(p)
    \/ VerifyCreate(p)

\* concurrent workers, requests and verifications for one phone number,
\* all within one instant
ConcCalls ==
    RequestOTPCalls({PhoneNational}, {IP1})
        \cup VerifyOTPCalls({PhoneNational}, IssuedCodes)

Next ==
    \/ \E p \in ConcProcs : BeginRequest(p, ConcBudget, ConcCalls)
    \/ \E p \in ConcProcs : RequestStep(p, Draws)
    \/ \E p \in ConcProcs : VerifyStep(p)

Spec == Init /\ [][Next]_vars

\* concurrent workers while time passes: challenges and counters expire
\* between the commands of a request
TimedNext ==
    \/ Tick(ConcTime)
    \/ \E p \in ConcProcs : BeginRequest(p, TimedBudget, ConcCalls)
    \/ \E p \in ConcProcs : RequestStep(p, Draws)
    \/ \E p \in ConcProcs : VerifyStep(p)

TimedSpec == Init /\ [][TimedNext]_vars

\* sessions, one worker: a challenge is requested and verified, the token
\* and its variants are presented on the protected routes while time passes
\* and the user row is updated or deleted
AuthNext ==
    \/ Tick(AuthTime)
    \/ \E p \in SeqProcs :
          BeginRequest(p, AuthBudget,
                       RequestOTPCalls({PhoneNational}, {IP1})
                           \cup VerifyOTPCalls({PhoneNational}, {generateRandomOTP(OTPLength, 0)})
                           \cup AuthCalls(Presentable))
    \/ \E p \in SeqProcs : RequestStep(p, {0})
    \/ \E p \in SeqProcs : VerifyStep(p)
    \/ \E p \in SeqProcs : AuthRequired(p)
    \/ UserUpdate({PhoneIntl})
    \/ UserDelete

AuthSpec == Init /\ [][AuthNext]_vars

\* one worker: RequestChallenge calls served one after the other
SeqCalls == RequestOTPCalls({PhoneNational, PhoneIntl}, {IP1})

SeqNext ==
    \/ Tick(MaxTime)
    \/ \E p \in SeqProcs : BeginRequest(p, SeqBudget, SeqCalls)
    \/ \E p \in SeqProcs : RequestStep(p, {0})

SeqSpec == Init /\ [][SeqNext]_vars

\* a burst: every worker serves RequestChallenge for one phone number from
\* one address, no time passes
BurstCalls == RequestOTPCalls({PhoneNational}, {IP1})

BurstNext ==
    \/ \E p \in Procs : BeginRequest(p, BurstBudget, BurstCalls)
    \/ \E p \in Procs : RequestStep(p, {0})

BurstSpec == Init /\ [][BurstNext]_vars

\* one worker, one phone number, one address: RequestChallenge calls served
\* one after the other while time passes; the calls admitted in an interval
\* of one window that starts at any instant are counted
WindowNext ==
    \/ Tick(WindowTime)
    \/ OpenInterval
    \/ \E p \in SeqProcs : BeginRequest(p, WindowBudget, RequestOTPCalls({PhoneNational}, {IP1}))
    \/ \E p \in SeqProcs : RequestStep(p, {0})

WindowSpec == Init /\ [][WindowNext]_vars

\* concurrent workers, no time passes: requests and verifications for two
\* phone numbers from one address
IsolationCalls ==
    RequestOTPCalls({PhoneNational, PhoneIntl}, {IP1})
        \cup VerifyOTPCalls({PhoneNational, PhoneIntl}, {generateRandomOTP(OTPLength, 0)})

IsolationNext ==
    \/ \E p \in ConcProcs : BeginRequest(p, IsolationBudget, IsolationCalls)
    \/ \E p \in ConcProcs : RequestStep(p, {0})
    \/ \E p \in ConcProcs : VerifyStep(p)

IsolationSpec == Init /\ [][IsolationNext]_vars

\* one worker, no time passes, the configured code length is any of
\* 1..MaxLength: requests with a well-formed and a malformed phone number,
\* verifications that return the issued code
Lengths == 1..MaxLength

LenInit == Boot /\ otpLen \in Lengths

\* r.Int63n(max-min+1): the lowest and the highest value it returns
LenDraws == {0, otpSpan(otpLen) - 1}

LenCalls ==
    RequestOTPCalls({PhoneNational, PhoneShort}, {IP1})
        \cup VerifyOTPCalls({PhoneNational},
                            {generateRandomOTP(otpLen, d) : d \in LenDraws})

LenNext ==
    \/ \E p \in SeqProcs : BeginRequest(p, LenBudget, LenCalls)
    \/ \E p \in SeqProcs : RequestStep(p, LenDraws)
    \/ \E p \in SeqProcs : VerifyStep(p)

LenSpec == LenInit /\ [][LenNext]_vars

\* one worker, no time passes: requests and verifications for a phone
\* number in each format the README lists
ReadmePhones == {PhoneIntl, PhoneNational, PhoneShort}

FormatCalls ==
    RequestOTPCalls(ReadmePhones, {IP1})
        \cup VerifyOTPCalls(ReadmePhones, {generateRandomOTP(OTPLength, 0)})

FormatNext ==
    \/ \E p \in SeqProcs : BeginRequest(p, FormatBudget, FormatCalls)
    \/ \E p \in SeqProcs : RequestStep(p, {0})
    \/ \E p \in SeqProcs : VerifyStep(p)

FormatSpec == Init /\ [][FormatNext]_vars

\* guessing: a challenge is requested, then verifications with its code or
\* with another code of the right format arrive on three workers, no time
\* passes
GuessProcs == {1, 2, 3}

WrongCode == generateRandomOTP(OTPLength, 1)

GuessCalls == VerifyOTPCalls({PhoneNational}, {WrongCode, generateRandomOTP(OTPLength, 0)})

GuessNext ==
    \/ \E p \in SeqProcs :
          BeginRequest(p, GuessBudget, RequestOTPCalls({PhoneNational}, {IP1}) \cup GuessCalls)
    \/ \E p \in GuessProcs \ SeqProcs : BeginRequest(p, GuessBudget, GuessCalls)
    \/ \E p \in SeqProcs : RequestStep(p, {0})
    \/ \E p \in GuessProcs : VerifyStep(p)

GuessSpec == Init /\ [][GuessNext]_vars

\* the protected routes, one worker: a challenge is requested and verified,
\* then the user routes are called with every kind of Authorization header
\* while time passes
BadClaims(t) ==
    {SignedString("HS256", JWTSecret, 0, t.phone_number, t.exp, t.rid, t.gen),
     SignedString("HS256", JWTSecret, t.user_id, <<>>, t.exp, t.rid, t.gen)}

GateCalls ==
    AuthCalls(Presentable \cup UNION {BadClaims(t) : t \in sessions})
        \cup SchemeCalls({<<>>, Basic, BearerUpper}, sessions)
        \cup SchemeCalls({Bearer}, {NoToken})

GateNext ==
    \/ Tick(GateTime)
    \/ \E p \in SeqProcs :
          BeginRequest(p, GateBudget,
                       RequestOTPCalls({PhoneNational}, {IP1})
                           \cup VerifyOTPCalls({PhoneNational}, {generateRandomOTP(OTPLength, 0)})
                           \cup GateCalls)
    \/ \E p \in SeqProcs : RequestStep(p, {0})
    \/ \E p \in SeqProcs : VerifyStep(p)
    \/ \E p \in SeqProcs : AuthRequired(p)

GateSpec == Init /\ [][GateNext]_vars

\* one worker, no time passes: requests during which any Redis command
\* may fail
FailNext ==
    \/ \E p \in SeqProcs :
          BeginRequest(p, FailBudget, RequestOTPCalls({PhoneNational}, {IP1}))
    \/ \E p \in SeqProcs : RequestStep(p, {0})
    \/ \E p \in SeqProcs : RequestStepFail(p)

FailSpec == Init /\ [][FailNext]_vars

\* one worker, no time passes: a challenge is requested and verified, and
\* any command of the verification may fail
VerifyFailNext ==
    \/ \E p \in SeqProcs :
          BeginRequest(p, VerifyFailBudget,
                       RequestOTPCalls({PhoneNational}, {IP1})
                           \cup VerifyOTPCalls({PhoneNational}, IssuedCodes))
    \/ \E p \in SeqProcs : RequestStep(p, {0})
    \/ \E p \in SeqProcs : VerifyStep(p)
    \/ \E p \in SeqProcs : VerifyStepFail(p)

VerifyFailSpec == Init /\ [][VerifyFailNext]_vars

(***************************************************************************)
(* Properties.                                                             *)
(***************************************************************************)
PassesFetch(p) == pc[p] = "v_get" /\ pc'[p] = "v_del"

OtpWrites(p) ==
    {i \in 1..Len(trace[p]) : trace[p][i][1] \in {"set", "del"} /\ trace[p][i][2] \in OtpKeys}

\* C1: a verification passes the fetch and compare only with the code that
\* the most recent StoreOTP for that phone number wrote, matched against that
\* very challenge; a code of an earlier challenge no longer passes once the
\* next challenge has been issued.
C1_SingleActiveChallenge ==
    [][\A p \in Procs : PassesFetch(p) =>
            /\ req[p].otp = issued[req[p].phone].code
            /\ loc'[p].gen = issued[req[p].phone].gen]_vars

C1_Witness ==
    \E p \in Procs :
        /\ outcome[p] = [kind |-> "InvalidOrExpired", by |-> "compare"]
        /\ issued[req[p].phone].gen >= 2
        /\ req[p].otp # issued[req[p].phone].code
        /\ Live(otpKey(req[p].phone))

\* C2: once a verification has returned success for a challenge, no later
\* verification passes the fetch and compare on that challenge: without a
\* new RequestChallenge the same code is answered InvalidOrExpired.
C2_SingleUse ==
    [][\A p \in Procs : PassesFetch(p) =>
            ~\E t \in sessions : t.gen = store[otpKey(req[p].phone)].gen]_vars

C2_Witness ==
    \E p \in Procs :
        /\ outcome[p] = [kind |-> "InvalidOrExpired", by |-> "fetch"]
        /\ req[p].otp = issued[req[p].phone].code
        /\ now < issued[req[p].phone].at + OTPExpiration
        /\ \E t \in sessions : t.gen = issued[req[p].phone].gen /\ t.rid < req[p].id

\* C3: a verification that fetches at or after issuance + TTL of the last
\* challenge of its phone number ends InvalidOrExpired, whatever code it
\* carries, and mints no session.
C3_Expiry ==
    [][\A p \in Procs :
            (/\ pc[p] = "v_get"
             /\ pc'[p] # "v_get"
             /\ ValidOTPFormat(req[p].otp)
             /\ ValidPhone(req[p].phone)
             /\ issued[req[p].phone].gen > 0
             /\ now >= issued[req[p].phone].at + OTPExpiration)
            => /\ outcome'[p].kind = "InvalidOrExpired"
               /\ pc'[p] = "done"
               /\ sessions' = sessions]_vars

C3_Witness ==
    \E p \in Procs :
        /\ outcome[p] = [kind |-> "InvalidOrExpired", by |-> "fetch"]
        /\ issued[req[p].phone].gen > 0
        /\ req[p].otp = issued[req[p].phone].code
        /\ now = issued[req[p].phone].at + OTPExpiration
        /\ consumed = {}

OnlyPhone(ph) == \A q \in Phones \ {ph} : reqDone[q] = 0

\* C4: sequential RequestChallenge calls for one phone number from one
\* address, starting with no counters and before any counter expires: the
\* first `limit` calls are admitted, each with a challenge issued, and every
\* further call is RateLimited.
C4_RateLimitBoundary ==
    \A ph \in Phones :
        (ValidPhone(ph) /\ ~expired /\ OnlyPhone(ph)) =>
            /\ admitted[ph] = Min(reqDone[ph], limit)
            /\ limited[ph] = reqDone[ph] - admitted[ph]
            /\ issued[ph].gen >= admitted[ph]

C4_Witness ==
    \E ph \in Phones :
        /\ ValidPhone(ph) /\ ~expired /\ OnlyPhone(ph)
        /\ limit = 2
        /\ admitted[ph] = limit
        /\ reqDone[ph] = limit + 1
        /\ limited[ph] = 1

\* C5: a RequestChallenge for a phone number that has been RateLimited,
\* begun a full window after the last rate-counter command, is not
\* RateLimited.
C5_WindowReArm ==
    \A p \in Procs : quiet[p] => outcome[p].kind # "RateLimited"

\* C6: two verifications that each obtain a session from one challenge both
\* fetched it before either deleted it: a verification passes the fetch and
\* compare only on a challenge that no verification has consumed yet.
C6_FetchThenConsume ==
    [][\A p \in Procs : PassesFetch(p) => loc'[p].gen \notin consumed]_vars

C6_Witness ==
    \E t1, t2 \in sessions :
        /\ t1.rid # t2.rid
        /\ t1.gen = t2.gen
        /\ t1.phone_number = t2.phone_number
        /\ ngen = 1

\* C7: whatever the number of concurrent RequestChallenge calls for one
\* phone number inside one window, at most limit+1 of them are admitted.
C7_CheckThenActBound ==
    \A ph \in Phones : ~expired => admitted[ph] <= limit + 1

\* C8: a RateLimited RequestChallenge has issued no write (SET or DEL) on a
\* challenge entry.
C8_RateLimitGatesIssuance ==
    \A p \in Procs : outcome[p].kind = "RateLimited" => OtpWrites(p) = {}

C8_Witness ==
    \E p \in Procs :
        /\ outcome[p] = [kind |-> "RateLimited", by |-> "service"]
        /\ Live(otpKey(req[p].phone))

\* C9: the middleware reads and records the address counter before it reads
\* the phone counter; a request denied at the phone counter has issued
\* exactly one write, on the address counter, and none on the phone counter;
\* a request denied at the address counter has issued one read of the
\* address counter and nothing else.
C9_DualScopeOrdering ==
    \A p \in Procs :
        LET ik == ipKey(req[p].ip)
            pk == phoneKey(req[p].phone)
        IN
        /\ outcome[p] = [kind |-> "RateLimited", by |-> "mw_phone"] =>
              trace[p] \in {<< <<"get", ik>>, <<"set", ik>>, <<"get", pk>> >>,
                            << <<"get", ik>>, <<"incr", ik>>, <<"get", pk>> >>}
        /\ outcome[p] = [kind |-> "RateLimited", by |-> "mw_ip"] =>
              trace[p] = << <<"get", ik>> >>
        /\ (req[p].kind = "request" /\ Len(trace[p]) >= 3) =>
              /\ trace[p][1] = <<"get", ik>>
              /\ trace[p][2] \in {<<"set", ik>>, <<"incr", ik>>}
              /\ trace[p][3] = <<"get", pk>>

C9_Witness ==
    \E p, q \in Procs :
        /\ outcome[p] = [kind |-> "RateLimited", by |-> "mw_phone"]
        /\ outcome[q] = [kind |-> "RateLimited", by |-> "mw_ip"]

\* C10: sequential requests from one address before any counter expires:
\* exactly 2 x limit of them pass the address check and every further one
\* is RateLimited there.
C10_AddressTwiceLimit ==
    \A a \in IPs : ~expired => ipPassed[a] = Min(ipSeen[a], 2 * limit)

C10_Witness ==
    \E p \in Procs :
        /\ outcome[p] = [kind |-> "RateLimited", by |-> "mw_ip"]
        /\ ~expired
        /\ ipSeen[req[p].ip] = 2 * limit + 1
        /\ ipPassed[req[p].ip] = 2 * limit
        /\ \A ph \in {PhoneNational, PhoneIntl} : admitted[ph] = limit

\* C11: a worker gets past the fetch and compare of VerifyOTP only from the
\* fetch, on a live challenge whose stored code equals the submitted code;
\* every token minted is minted by such a worker, carries the phone number of
\* its request and the id and phone number of a row of the users table.
C11_AuthenticationSoundness ==
    [][/\ \A p \in Procs :
            (/\ pc[p] \notin {"v_del", "v_find", "v_create"}
             /\ pc'[p] \in {"v_del", "v_find", "v_create"})
            => /\ pc[p] = "v_get"
               /\ Live(otpKey(req[p].phone))
               /\ store[otpKey(req[p].phone)].val = req[p].otp
       /\ \A t \in sessions' \ sessions :
            \E p \in Procs :
                /\ pc[p] \in {"v_find", "v_create"}
                /\ req[p].kind = "verify"
                /\ t.rid = req[p].id
                /\ t.phone_number = req[p].phone
                /\ \E u \in users' : u.id = t.user_id /\ u.phone_number = t.phone_number]_vars

C11_Witness ==
    \E p, q \in Procs :
        /\ outcome[p] = [kind |-> "Success", by |-> "handler"]
        /\ outcome[q] = [kind |-> "InvalidOrExpired", by |-> "compare"]
        /\ req[q].phone = req[p].phone
        /\ Cardinality(sessions) = 1
        /\ \E t \in sessions :
              /\ t.rid = req[p].id
              /\ t.phone_number = req[p].phone
              /\ \E u \in users : u.id = t.user_id /\ u.phone_number = t.phone_number

\* C12: a verification that ends on a mismatch leaves the whole store as it
\* was, the challenge it read still live; a challenge entry is removed, the
\* clock standing still, only by the DeleteOTP of a worker that passed the
\* fetch and compare.
C12_WrongGuessKeepsChallenge ==
    [][/\ \A p \in Procs :
            (/\ pc[p] = "v_get"
             /\ outcome'[p] = [kind |-> "InvalidOrExpired", by |-> "compare"])
            => /\ store' = store
               /\ Live(otpKey(req[p].phone))
       /\ \A k \in OtpKeys :
            (Live(k) /\ ~store'[k].live /\ now' = now)
            => \E p \in Procs :
                 /\ pc[p] = "v_del"
                 /\ pc'[p] = "v_find"
                 /\ otpKey(req[p].phone) = k
                 /\ loc[p].gen > 0]_vars

C12_Witness ==
    \E p, q \in Procs :
        /\ outcome[q] = [kind |-> "InvalidOrExpired", by |-> "compare"]
        /\ req[p].kind = "verify"
        /\ req[p].phone = req[q].phone
        /\ req[p].id > req[q].id
        /\ pc[p] = "v_get"
        /\ Live(otpKey(req[p].phone))
        /\ store[otpKey(req[p].phone)].val = req[p].otp
        /\ store[otpKey(req[p].phone)].gen = issued[req[p].phone].gen
        /\ ngen = 1

\* C13: the response to a verification that found a live challenge with
\* another code is the response to a verification that found no challenge:
\* status 401 with the same error text.
C13_CollapsedErrorIdentity ==
    \A p, q \in Procs :
        (/\ outcome[p] = [kind |-> "InvalidOrExpired", by |-> "compare"]
         /\ outcome[q] = [kind |-> "InvalidOrExpired", by |-> "fetch"])
        => /\ VerifyOTPFailure(VerifyOTPErr(outcome[p].by))
                 = VerifyOTPFailure(VerifyOTPErr(outcome[q].by))
           /\ VerifyOTPFailure(VerifyOTPErr(outcome[p].by)).status = 401

C13_Witness ==
    \E p, q \in Procs :
        /\ outcome[p] = [kind |-> "InvalidOrExpired", by |-> "compare"]
        /\ outcome[q] = [kind |-> "InvalidOrExpired", by |-> "fetch"]
        /\ req[p].phone = req[q].phone
        /\ req[p].otp = req[q].otp
        /\ ValidOTPFormat(req[p].otp)

\* C17: DeleteOTP on a phone number that has no stored challenge is no
\* error and changes nothing in the store: the verification goes on to the
\* user lookup.
C17_IdempotentConsume ==
    [][\A p \in Procs :
            (/\ pc[p] = "v_del"
             /\ pc'[p] # "v_del"
             /\ ~Live(otpKey(req[p].phone)))
            => /\ store' = store
               /\ pc'[p] = "v_find"
               /\ outcome'[p] = NoOutcome]_vars

C17_Witness ==
    \E p, q \in Procs :
        /\ p # q
        /\ req[p].phone = req[q].phone
        /\ loc[p].gen = loc[q].gen
        /\ ngen = 1
        /\ pc[p] \in {"v_find", "v_create", "done"}
        /\ pc[q] \in {"v_find", "v_create", "done"}
        /\ \E i \in 1..Len(trace[p]) : trace[p][i] = <<"del", otpKey(req[p].phone)>>
        /\ \E i \in 1..Len(trace[q]) : trace[q][i] = <<"del", otpKey(req[q].phone)>>
        /\ ~Live(otpKey(req[p].phone))

\* C14: a token minted by generateJWT is stamped with the issuance time plus
\* the configured validity and carries the id and phone number of a user
\* row; presented at any time before that expiry it is accepted and the
\* context receives exactly that id and phone number; presented at any time
\* after the expiry it is rejected as expired.
C14_SessionRoundTrip ==
    [][/\ \A t \in sessions' \ sessions :
            /\ t.exp = now + JWTExpiration
            /\ \E u \in users' : u.id = t.user_id /\ u.phone_number = t.phone_number
       /\ \A p \in Procs :
            (/\ pc[p] = "auth"
             /\ pc'[p] = "done"
             /\ req[p].token \in sessions)
            => /\ now < req[p].token.exp
                    => /\ outcome'[p] = [kind |-> "Success", by |-> "auth"]
                       /\ ctx'[p] = [user_id |-> req[p].token.user_id,
                                     phone_number |-> req[p].token.phone_number]
               /\ now > req[p].token.exp
                    => /\ outcome'[p] = [kind |-> "TokenExpired", by |-> "exp"]
                       /\ ctx'[p] = NoCtx]_vars

C14_Witness ==
    \E p \in Procs :
        /\ req[p].kind = "auth"
        /\ req[p].token \in sessions
        /\ req[p].token \in accepted
        /\ req[p].token.exp = JWTExpiration
        /\ now > req[p].token.exp
        /\ outcome[p] = [kind |-> "TokenExpired", by |-> "exp"]

\* C15: a token whose signing algorithm is not the one generateJWT signs
\* with is never accepted by AuthRequired, even when it is unexpired and
\* signed with the configured secret.
C15_AlgorithmPinning ==
    \A p \in Procs :
        (/\ req[p].kind = "auth"
         /\ pc[p] = "done"
         /\ req[p].token # NoToken
         /\ \A s \in sessions : req[p].token.alg # s.alg)
        => outcome[p].kind # "Success"

\* C16: a minted token presented before its expiry is accepted whatever the
\* users table and the store hold at that moment, and the step changes
\* neither of them nor the set of minted tokens.
C16_NoRevocation ==
    [][\A p \in Procs :
            (/\ pc[p] = "auth"
             /\ pc'[p] = "done"
             /\ req[p].token \in sessions
             /\ now < req[p].token.exp)
            => /\ outcome'[p].kind = "Success"
               /\ req[p].token \in accepted'
               /\ UNCHANGED <<store, users, nextId, sessions>>]_vars

C16_Witness ==
    \E p \in Procs :
        /\ req[p].kind = "auth"
        /\ outcome[p] = [kind |-> "Success", by |-> "auth"]
        /\ req[p].token \in sessions
        /\ ~\E u \in users : u.id = req[p].token.user_id
        /\ ~Live(otpKey(req[p].token.phone_number))
        /\ ngen > req[p].token.gen
        /\ now > 0

\* C18: a RequestChallenge whose phone number is malformed ends in
\* ValidationError and none of its steps changes the store: no counter of
\* either scope is created or incremented and no challenge is written.
C18_ValidationPrecedesStore ==
    [][\A p \in Procs :
            (/\ req[p].kind = "request"
             /\ ~ValidPhone(req[p].phone)
             /\ pc'[p] # pc[p]
             /\ req'[p] = req[p])
            => /\ store' = store
               /\ pc'[p] = "done" => outcome'[p].kind = "ValidationError"]_vars

\* C19: every code that generateRandomOTP produced for the configured
\* length L has exactly L characters, all decimal digits, the first not "0".
C19_CodeFormat ==
    \A ph \in Phones :
        issued[ph].gen > 0
        => /\ Len(issued[ph].code) = otpLen
           /\ \A i \in 1..Len(issued[ph].code) :
                 \E d \in 1..10 : issued[ph].code[i] = DigitChars[d]
           /\ issued[ph].code[1] # "0"
           /\ Live(otpKey(ph)) => Len(store[otpKey(ph)].val) = otpLen

C19_Witness ==
    \E ph \in Phones :
        /\ issued[ph].gen > 0
        /\ otpLen > OTPLength
        /\ issued[ph].code = FormatInt(9 * powInt(10, otpLen - 1))
        /\ store[otpKey(ph)].val = issued[ph].code

\* C20: whatever the configured code length, a verification that returns
\* the code of the live challenge of its phone number passes the format
\* validation and the comparison, and goes on to the session.
C20_LengthHonoured ==
    [][\A p \in Procs :
            (/\ pc[p] = "v_get"
             /\ pc'[p] # "v_get"
             /\ ValidPhone(req[p].phone)
             /\ Live(otpKey(req[p].phone))
             /\ store[otpKey(req[p].phone)].val = req[p].otp
             /\ issued[req[p].phone].code = req[p].otp)
            => /\ pc'[p] = "v_del"
               /\ outcome'[p] = NoOutcome]_vars

\* C21: a request or a verification (with a well-formed code) for a phone
\* number in one of the three formats of the README, international,
\* national or short, does not end in ValidationError.
C21_AcceptedPhoneFormats ==
    \A p \in Procs :
        (/\ pc[p] = "done"
         /\ req[p].kind \in {"request", "verify"}
         /\ req[p].phone \in ReadmePhones
         /\ req[p].kind = "verify" => ValidOTPFormat(req[p].otp))
        => outcome[p].kind # "ValidationError"

\* C22: while a challenge is live, within one window, the verifications
\* that were compared against it and failed are at most as many as the
\* rate limit allows.
C22_GuessesBounded ==
    \A ph \in Phones :
        Live(otpKey(ph))
        => Cardinality({p \in Procs :
                           /\ req[p].kind = "verify"
                           /\ req[p].phone = ph
                           /\ outcome[p] = [kind |-> "InvalidOrExpired", by |-> "compare"]})
              <= limit

\* C23: a call of a user route reaches the handler, with user_id and
\* phone_number in its context, exactly when its Authorization header is
\* "Bearer <token>" and the token is signed with the configured secret under
\* an HMAC method, is not expired and carries a UUID user_id and a
\* phone_number; every other call is answered as unauthorized with nothing
\* in the context.
C23_ProtectedUserEndpoints ==
    [][\A p \in Procs :
            (pc[p] = "auth" /\ pc'[p] = "done")
            => LET t == req[p].token
                   passes ==
                       /\ req[p].scheme \in {Bearer, BearerUpper}
                       /\ t # NoToken
                       /\ t.alg \in {"HS256", "HS384", "HS512"}
                       /\ t.sig = MAC(JWTSecret, t.alg, t.user_id, t.phone_number, t.exp)
                       /\ now < t.exp
                       /\ t.user_id >= 1
                       /\ t.phone_number # <<>>
               IN  IF passes
                     THEN /\ outcome'[p].kind = "Success"
                          /\ ctx'[p] = [user_id |-> t.user_id, phone_number |-> t.phone_number]
                     ELSE /\ outcome'[p].kind \in {"Unauthorized", "TokenInvalid", "TokenExpired"}
                          /\ ctx'[p] = NoCtx]_vars

C23_Witness ==
    \E p \in Procs :
        /\ req[p].kind = "auth"
        /\ req[p].scheme = Bearer
        /\ req[p].token # NoToken
        /\ req[p].token.sig = MAC(JWTSecret, "HS256", req[p].token.user_id, <<>>, req[p].token.exp)
        /\ now < req[p].token.exp
        /\ outcome[p] = [kind |-> "TokenInvalid", by |-> "phone_number"]
        /\ accepted = {}
        /\ sessions # {}

\* C24: the users table never holds two rows with one phone number; a
\* verification adds a row only for a phone number that has none and never
\* changes or removes a row; every token minted for a phone number carries
\* the id of that phone number's row, the same id as every earlier token
\* for it.
C24_AccountProvisioning ==
    [][/\ \A u, v \in users' : u.phone_number = v.phone_number => u = v
       /\ users \subseteq users'
       /\ \A u \in users' \ users :
            /\ ~\E v \in users : v.phone_number = u.phone_number
            /\ ~\E s \in sessions : s.phone_number = u.phone_number
       /\ \A t \in sessions' \ sessions :
            /\ \E u \in users' : u.id = t.user_id /\ u.phone_number = t.phone_number
            /\ \A s \in sessions : s.phone_number = t.phone_number => s.user_id = t.user_id]_vars

C24_Witness ==
    /\ Cardinality(users) = 1
    /\ \E s, t \in sessions :
          /\ s.rid # t.rid
          /\ s.phone_number = t.phone_number
          /\ s.user_id = t.user_id
          /\ s.gen = t.gen
    /\ \E p \in Procs : outcome[p] = [kind |-> "Success", by |-> "handler"]

\* C25: the response of an accepted request is the response the handler
\* gives for every other code generateRandomOTP could have drawn; the line
\* written to the log is different for each code.
C25_CodeNeverEchoed ==
    \A p \in Procs :
        (/\ req[p].kind = "request"
         /\ outcome[p] = [kind |-> "Accepted", by |-> "handler"])
        => \A c \in IssuedCodes :
              LET ph == req[p].phone
                  otp == issued[ph].code
              IN  /\ RequestOTPSuccess(c) = RequestOTPSuccess(otp)
                  /\ c # otp => RequestOTPLog(ph, c) # RequestOTPLog(ph, otp)

C25_Witness ==
    \E p, q \in Procs :
        /\ p # q
        /\ req[p].kind = "request"
        /\ req[q].kind = "request"
        /\ outcome[p] = [kind |-> "Accepted", by |-> "handler"]
        /\ outcome[q] = [kind |-> "Accepted", by |-> "handler"]
        /\ issued[req[p].phone].code = generateRandomOTP(OTPLength, MaxDraw)
        /\ ngen = 2

\* C26: every rate counter in the store has an expiry, and a counter comes
\* into being with count 1 and an expiry one window ahead.
C26_CountersCarryExpiry ==
    [][/\ \A k \in CounterKeys : Live(k) => store[k].exp # NoExpiry
       /\ \A k \in CounterKeys :
            (~Live(k) /\ store'[k].live)
            => /\ store'[k].val = 1
               /\ store'[k].exp = now + Window]_vars

\* C27: while a rate counter stays in the store, the clock standing still,
\* no step makes its count smaller.
C27_CounterMonotonic ==
    [][\A k \in CounterKeys :
            (Live(k) /\ store'[k].live /\ now' = now)
            => store'[k].val >= store[k].val]_vars

\* C28: a request during which a command on a rate counter failed ends in
\* StoreError, and it never writes a challenge.
C28_FailuresNotSwallowed ==
    \A p \in Procs :
        (req[p].kind = "request" /\ Failed(p))
        => /\ pc[p] = "done" => outcome[p].kind = "StoreError"
           /\ OtpWrites(p) = {}

\* C30: a request that ended in ValidationError, RateLimited or StoreError
\* has written no challenge.
C30_ChallengeOnlyOnSuccess ==
    \A p \in Procs :
        (/\ req[p].kind = "request"
         /\ pc[p] = "done"
         /\ outcome[p].kind \in {"ValidationError", "RateLimited", "StoreError"})
        => OtpWrites(p) = {}

\* C29: the DeleteOTP of a verification removes only the challenge that the
\* verification fetched and compared: a live challenge is deleted only by a
\* worker whose fetch read that very issue.
C29_RemovedForOwnReasons ==
    [][\A p \in Procs :
            (/\ pc[p] = "v_del"
             /\ pc'[p] = "v_find"
             /\ Live(otpKey(req[p].phone)))
            => store[otpKey(req[p].phone)].gen = loc[p].gen]_vars

\* C31: a verification that ended with an outcome other than Success
\* (ValidationError, InvalidOrExpired or StoreError) has issued no SET and no
\* DEL on the challenge, so the challenge that was live before the call is
\* live after it.
C31_ConsumeOnlyOnSuccess ==
    \A p \in Procs :
        (/\ req[p].kind = "verify"
         /\ pc[p] = "done"
         /\ outcome[p].kind # "Success")
        => OtpWrites(p) = {}

\* C32: a verification whose fetch finds the challenge overwritten with
\* another code than the one it carries ends in InvalidOrExpired; a
\* verification whose fetch finds the code it carries goes on with the
\* challenge it read and, whatever is issued for the phone number from then
\* on, ends in Success (or in the StoreError of the users table), never in
\* InvalidOrExpired.
C32_IssueOverwriteRace ==
    [][\A p \in Procs :
          LET k == otpKey(req[p].phone) IN
          /\ (/\ pc[p] = "v_get"
              /\ pc'[p] # "v_get"
              /\ ValidOTPFormat(req[p].otp)
              /\ ValidPhone(req[p].phone)
              /\ Live(k))
             => IF store[k].val = req[p].otp
                  THEN pc'[p] = "v_del" /\ loc'[p].gen = store[k].gen
                  ELSE outcome'[p] = [kind |-> "InvalidOrExpired", by |-> "compare"]
          /\ (pc[p] \in {"v_del", "v_find", "v_create"} /\ pc'[p] # pc[p])
             => \/ pc'[p] \in {"v_find", "v_create"}
                \/ outcome'[p] = [kind |-> "Success", by |-> "handler"]
                \/ outcome'[p] = [kind |-> "StoreError", by |-> "create"]]_vars

\* the fetch came first: the verification read the first challenge, a
\* request that began later overwrote it, the verification deleted the new
\* challenge and succeeded
C32_Witness ==
    \E p, q \in Procs :
        /\ req[p].kind = "verify"
        /\ req[q].kind = "request"
        /\ req[q].id > req[p].id
        /\ outcome[p] = [kind |-> "Success", by |-> "handler"]
        /\ loc[p].gen = 1
        /\ ngen = 2
        /\ issued[req[p].phone].gen = 2
        /\ issued[req[p].phone].code # req[p].otp
        /\ ~Live(otpKey(req[p].phone))
        /\ \E i \in 1..Len(trace[q]) : trace[q][i] = <<"set", otpKey(req[p].phone)>>

\* C33: while a rate counter stays in the store no step changes its expiry
\* instant: increments do not extend the window and no request sets the
\* expiry of a counter that has not expired.
C33_FixedWindow ==
    [][\A k \in CounterKeys :
            (Live(k) /\ store'[k].live) => store'[k].exp = store[k].exp]_vars

\* C34: requests for one phone number served one after the other: in a time
\* interval of one window, whenever it starts, at most 2 x limit calls are
\* admitted.
C34_BoundaryBurstBound == interval.count <= 2 * limit

\* limit calls admitted at the end of one window and limit more at the start
\* of the next, all inside one interval
C34_Witness ==
    /\ limit = 2
    /\ interval.from = 0
    /\ interval.count = 2 * limit
    /\ admitted[PhoneNational] = 2 * limit
    /\ now = Window

\* C35: the codes generateRandomOTP draws for length L run from 10^(L-1),
\* at the lowest value of the random draw, to 10^L - 1, at its highest: a
\* challenge issued at either end of the draw carries one of these two codes.
C35_WholeCodeSpace ==
    \A ph \in Phones :
        issued[ph].gen > 0
        => issued[ph].code \in {FormatInt(powInt(10, otpLen - 1)),
                                FormatInt(powInt(10, otpLen) - 1)}

\* C36: a request writes a rate counter (SET or INCR) only after it has
\* stored its challenge; a request whose StoreOTP failed has written no
\* rate counter.
C36_RecordAfterIssue ==
    \A p \in Procs :
        req[p].kind = "request"
        => /\ \A i \in 1..Len(trace[p]) :
                (trace[p][i][1] \in {"set", "incr"} /\ trace[p][i][2] \in CounterKeys)
                => \E j \in 1..(i - 1) : trace[p][j] = <<"set", otpKey(req[p].phone)>>
           /\ outcome[p] = [kind |-> "StoreError", by |-> "store"]
              => ~\E i \in 1..Len(trace[p]) :
                    trace[p][i][1] \in {"set", "incr"} /\ trace[p][i][2] \in CounterKeys

Subscriber(ph) ==
    IF HasPrefix(ph, <<"+", "9", "8">>) THEN SubSeq(ph, 4, Len(ph))
    ELSE IF HasPrefix(ph, <<"9", "8">>) THEN SubSeq(ph, 3, Len(ph))
    ELSE IF HasPrefix(ph, <<"0">>) THEN SubSeq(ph, 2, Len(ph))
    ELSE ph

\* C38: requests served one after the other before any counter expires: the
\* calls admitted for one subscriber number, in whatever accepted format it
\* was written, are at most `limit`.
C38_PerPhoneNumberControl ==
    ~expired
    => \A ph \in Phones :
          ValidPhone(ph)
          => LET same == {q \in Phones : ValidPhone(q) /\ Subscriber(q) = Subscriber(ph)}
                 total[S \in SUBSET same] ==
                     IF S = {} THEN 0
                     ELSE LET q == CHOOSE x \in S : TRUE IN admitted[q] + total[S \ {q}]
             IN  total[same] <= limit

\* C39: a command of a request or verification for one phone number leaves
\* the challenge and the phone counters of every other phone number as they
\* were; the challenge key, the two phone counter keys and the address
\* counter key are four different keys for every validated phone number and
\* every address, and different phone numbers have different keys.
C39_IdentityIsolation ==
    [][/\ \A p \in Procs :
            (~Free(p) /\ pc'[p] # pc[p])
            => \A ph \in Phones \ {req[p].phone} :
                  /\ store'[otpKey(ph)] = store[otpKey(ph)]
                  /\ store'[rateLimitKey(ph)] = store[rateLimitKey(ph)]
                  /\ store'[phoneKey(ph)] = store[phoneKey(ph)]
       /\ \A ph, q \in {x \in Phones : ValidPhone(x)} : \A a \in IPs :
            /\ otpKey(ph) \notin {rateLimitKey(q), phoneKey(q), ipKey(a)}
            /\ rateLimitKey(ph) \notin {phoneKey(q), ipKey(a)}
            /\ phoneKey(ph) # ipKey(a)
            /\ ph # q => /\ otpKey(ph) # otpKey(q)
                         /\ rateLimitKey(ph) # rateLimitKey(q)
                         /\ phoneKey(ph) # phoneKey(q)]_vars

\* a request for one phone number was admitted and its challenge verified
\* and deleted while the challenge and the counters of the other phone
\* number stayed as its own request had left them
C39_Witness ==
    \E p, q \in Procs :
        /\ req[p].kind = "verify"
        /\ req[q].kind = "request"
        /\ req[p].phone # req[q].phone
        /\ outcome[p] = [kind |-> "Success", by |-> "handler"]
        /\ outcome[q] = [kind |-> "Accepted", by |-> "handler"]
        /\ ~Live(otpKey(req[p].phone))
        /\ Live(otpKey(req[q].phone))
        /\ store[otpKey(req[q].phone)].val = issued[req[q].phone].code
        /\ store[phoneKey(req[q].phone)].val = 1
        /\ store[rateLimitKey(req[q].phone)].val = 1
        /\ store[phoneKey(req[p].phone)].val = 1

====
